---- MODULE Spec2Model ----
(***************************************************************************)
(* A model of the maze generator and A* solver of krunker-maze-generator   *)
(* (src/src/lib.rs; src/src/main.rs carries an identical copy of Maze).    *)
(*                                                                         *)
(*   Maze::new       builds the fully walled grid                          *)
(*   Maze::generate  carves passages with an explicit stack of             *)
(*                   (x, y, dir_idx) frames, shuffling the four directions *)
(*                   on every pop                                          *)
(*   Maze::solve     A* from (0,0) to (width-1,height-1)                   *)
(***************************************************************************)
EXTENDS Integers, Sequences, FiniteSets, TLC

VARIABLES width, height, vert_walls, hor_walls, visited, stack, path, pc

vars == <<width, height, vert_walls, hor_walls, visited, stack, path, pc>>

\* Largest number of cells (width * height) of a grid that is generated.
MaxCells == 6

\* Largest number of cells of a hand-made wall configuration that is solved.
SolveMaxCells == 9

\* usize::MAX, the "unknown" distance of g_score and the result of
\* 0usize.wrapping_sub(1).  The model only needs it to exceed every index and
\* every distance of a grid; it is the largest integer TLC represents.
UsizeMax == 2147483647

(***************************************************************************)
(* Maze::new                                                               *)
(***************************************************************************)

\* vec![vec![true; width + 1]; height]
NewVertWalls(w, h) == [y \in 0..(h - 1) |-> [x \in 0..w |-> TRUE]]

\* vec![vec![true; width]; height + 1]
NewHorWalls(w, h) == [y \in 0..h |-> [x \in 0..(w - 1) |-> TRUE]]

(***************************************************************************)
(* Maze::generate                                                          *)
(***************************************************************************)

\* The direction vector before the shuffle: (dx, dy, dir).
BaseDirs == <<  <<1, 0, "R">>, <<-1, 0, "L">>, <<0, 1, "D">>, <<0, -1, "U">>  >>

\* dirs.shuffle(..): every ordering of the four directions, indexed 0..3.
Shuffles ==
    { [i \in 0..3 |-> BaseDirs[p[i]]] :
        p \in { q \in [0..3 -> 1..4] : \A i, j \in 0..3 : i # j => q[i] # q[j] } }

\* nx >= 0 && nx < width && ny >= 0 && ny < height
InBoundsOffByOne(nx, ny, w, h) == nx >= 0 /\ nx <= w /\ ny >= 0 /\ ny <= h
InBounds(nx, ny, w, h) == nx >= 0 /\ nx < w /\ ny >= 0 /\ ny < h

\* An index expression v[a][b] that does not panic.
IndexOk(v, a, b) == a \in DOMAIN v /\ b \in DOMAIN v[a]

\* !visited[ny][nx]
NotVisitedAlways(vis, nx, ny) == TRUE
NotVisited(vis, nx, ny) == ~vis[ny][nx]

\* The wall entry the match on dir sets to false: <<registry, row, column>>.
WallOfShifted(x, y, dir) ==
    CASE dir = "R" -> <<"v", y, x + 1>>
      [] dir = "L" -> <<"v", y, x - 1>>
      [] dir = "D" -> <<"h", y + 1, x>>
      [] dir = "U" -> <<"h", y - 1, x>>
WallOfSwapped(x, y, dir) ==
    CASE dir = "R" -> <<"v", y, x>>
      [] dir = "L" -> <<"v", y, x + 1>>
      [] dir = "D" -> <<"h", y, x>>
      [] dir = "U" -> <<"h", y + 1, x>>
WallOf(x, y, dir) ==
    CASE dir = "R" -> <<"v", y, x + 1>>
      [] dir = "L" -> <<"v", y, x>>
      [] dir = "D" -> <<"h", y + 1, x>>
      [] dir = "U" -> <<"h", y, x>>

\* The for loop over i in dir_idx..dirs.len(): the first i whose neighbour is
\* in bounds and unvisited, 4 when there is none, -1 when the read of
\* visited[ny][nx] would index out of bounds.
RECURSIVE Scan(_, _, _, _, _, _, _)
Scan(i, x, y, dirs, vis, w, h) ==
    IF i >= 4 THEN 4
    ELSE LET nx == x + dirs[i][1]
             ny == y + dirs[i][2]
         IN  IF InBounds(nx, ny, w, h)
             THEN IF ~IndexOk(vis, ny, nx) THEN -1
                  ELSE IF NotVisited(vis, nx, ny) THEN i
                  ELSE Scan(i + 1, x, y, dirs, vis, w, h)
             ELSE Scan(i + 1, x, y, dirs, vis, w, h)

(***************************************************************************)
(* Maze::solve                                                             *)
(***************************************************************************)

Abs(v) == IF v < 0 THEN -v ELSE v

\* The closure h: Manhattan distance from cell idx to the goal.
HTriple(idx, w, h) == 3 * (Abs((w - 1) - (idx % w)) + Abs((h - 1) - (idx \div w)))
H(idx, w, h) == Abs((w - 1) - (idx % w)) + Abs((h - 1) - (idx \div w))

\* v.wrapping_sub(1) on usize.
WrappingSub1(v) == IF v = 0 THEN UsizeMax ELSE v - 1

\* The neighbors array of cell (cx, cy): (nx, ny, ok) for left, right, up, down.
Neighbors(cx, cy, w, h, vw, hw) ==
    << <<WrappingSub1(cx), cy, cx > 0 /\ ~vw[cy][cx]>>,
       <<cx + 1, cy, cx + 1 < w /\ ~vw[cy][cx + 1]>>,
       <<cx, WrappingSub1(cy), cy > 0 /\ ~hw[cy][cx]>>,
       <<cx, cy + 1, cy + 1 < h /\ ~hw[cy + 1][cx]>> >>

\* open.pop() on BinaryHeap<(Reverse<usize>, usize)>: the greatest entry, that
\* is the least f and, among equal f, the greatest cell index.  Entries are
\* <<f, idx>>; an entry is pushed only when g_score[idx] strictly drops, so no
\* entry is ever in the heap twice and a set holds the heap's content.
PopMaxF(open) ==
    CHOOSE e \in open :
        \A o \in open : e[1] > o[1] \/ (e[1] = o[1] /\ e[2] >= o[2])
Pop(open) ==
    CHOOSE e \in open :
        \A o \in open : e[1] < o[1] \/ (e[1] = o[1] /\ e[2] >= o[2])

\* The relaxation loop `for &(nx, ny, ok) in &neighbors`, from entry k on.
\* st = [g |-> g_score, came |-> came_from, open |-> open].
RECURSIVE Relax(_, _, _, _, _, _)
Relax(k, nbs, current, st, w, h) ==
    IF k > 4 THEN st
    ELSE LET nx == nbs[k][1]
             ny == nbs[k][2]
             ok == nbs[k][3]
         IN  IF ~ok \/ nx >= w \/ ny >= h
             THEN Relax(k + 1, nbs, current, st, w, h)
             ELSE LET neighbor == ny * w + nx
                      tentative == st.g[current] + 1
                  IN  IF tentative < st.g[neighbor]
                      THEN Relax(k + 1, nbs, current,
                                 [g |-> [st.g EXCEPT ![neighbor] = tentative],
                                  came |-> [n \in DOMAIN st.came \cup {neighbor} |->
                                              IF n = neighbor THEN current ELSE st.came[n]],
                                  open |-> st.open \cup {<<tentative + H(neighbor, w, h), neighbor>>}],
                                 w, h)
                      ELSE Relax(k + 1, nbs, current, st, w, h)

\* `while let Some((_, current)) = open.pop()`, with the break at the goal.
RECURSIVE Search(_, _, _, _, _)
Search(st, w, h, vw, hw) ==
    IF st.open = {} THEN st
    ELSE LET e == Pop(st.open)
             current == e[2]
             popped == [st EXCEPT !.open = st.open \ {e}]
         IN  IF current = w * h - 1 THEN popped
             ELSE Search(Relax(1, Neighbors(current % w, current \div w, w, h, vw, hw),
                               current, popped, w, h),
                         w, h, vw, hw)

\* The search state when the loop of solve is left.
SearchResult(w, h, vw, hw) ==
    Search([g |-> [i \in 0..(w * h - 1) |-> IF i = 0 THEN 0 ELSE UsizeMax],
            came |-> <<>>,
            open |-> {<<H(0, w, h), 0>>}],
           w, h, vw, hw)

Reverse(s) == [i \in 1..Len(s) |-> s[Len(s) + 1 - i]]

\* `while let Some(&p) = came_from.get(&cur)`: the cells pushed, goal first.
RECURSIVE Back(_, _, _)
Back(cur, came, w) ==
    IF cur \in DOMAIN came
    THEN << <<cur % w, cur \div w>> >> \o Back(came[cur], came, w)
    ELSE <<>>

\* path.push((0, 0)); path.reverse(); path
ReconstructNoStart(came, w, h) == Reverse(Back(w * h - 1, came, w))
Reconstruct(came, w, h) == Reverse(Back(w * h - 1, came, w) \o << <<0, 0>> >>)

\* The value solve returns on a grid with width, height >= 1.
SolvePath(w, h, vw, hw) == Reconstruct(SearchResult(w, h, vw, hw).came, w, h)

Init ==
    /\ width = 0
    /\ height = 0
    /\ vert_walls = <<>>
    /\ hor_walls = <<>>
    /\ visited = <<>>
    /\ stack = <<>>
    /\ path = <<>>
    /\ pc = "start"

\* main: Maze::new(args.width, args.height); both are usize, any value >= 0.
New(w, h) ==
    /\ pc = "start"
    /\ width' = w
    /\ height' = h
    /\ vert_walls' = NewVertWalls(w, h)
    /\ hor_walls' = NewHorWalls(w, h)
    /\ pc' = "created"
    /\ UNCHANGED <<visited, stack, path>>

\* generate, up to the loop: the visited table, visited[0][0] = true and the
\* first frame.  visited[0][0] panics when the table has no row or no column.
GenerateBegin ==
    /\ pc = "created"
    /\ LET fresh == [y \in 0..(height - 1) |-> [x \in 0..(width - 1) |-> FALSE]]
       IN  IF IndexOk(fresh, 0, 0)
           THEN /\ visited' = [fresh EXCEPT ![0][0] = TRUE]
                /\ stack' = << <<0, 0, 0>> >>
                /\ pc' = "generating"
           ELSE /\ pc' = "panic"
                /\ UNCHANGED <<visited, stack>>
    /\ UNCHANGED <<width, height, vert_walls, hor_walls, path>>

\* One iteration of `while let Some((x, y, dir_idx)) = stack.pop()`.
GenerateStep(dirs) ==
    /\ pc = "generating"
    /\ stack # <<>>
    /\ LET top == stack[Len(stack)]
           rest == SubSeq(stack, 1, Len(stack) - 1)
           x == top[1]
           y == top[2]
           i == Scan(top[3], x, y, dirs, visited, width, height)
       IN  IF i = 4
           THEN /\ stack' = rest
                /\ UNCHANGED <<vert_walls, hor_walls, visited, pc>>
           ELSE IF i = -1
           THEN /\ pc' = "panic"
                /\ stack' = rest
                /\ UNCHANGED <<vert_walls, hor_walls, visited>>
           ELSE LET nx == x + dirs[i][1]
                    ny == y + dirs[i][2]
                    wl == WallOf(x, y, dirs[i][3])
                    reg == IF wl[1] = "v" THEN vert_walls ELSE hor_walls
                IN  IF ~IndexOk(reg, wl[2], wl[3])
                    THEN /\ pc' = "panic"
                         /\ stack' = rest
                         /\ UNCHANGED <<vert_walls, hor_walls, visited>>
                    ELSE /\ vert_walls' = IF wl[1] = "v"
                                          THEN [vert_walls EXCEPT ![wl[2]][wl[3]] = FALSE]
                                          ELSE vert_walls
                         /\ hor_walls' = IF wl[1] = "h"
                                         THEN [hor_walls EXCEPT ![wl[2]][wl[3]] = FALSE]
                                         ELSE hor_walls
                         /\ visited' = [visited EXCEPT ![ny][nx] = TRUE]
                         /\ stack' = rest \o << <<x, y, i + 1>>, <<nx, ny, 0>> >>
                         /\ pc' = pc
    /\ UNCHANGED <<width, height, path>>

\* stack.pop() is None: the loop ends and generate returns.
GenerateReturn ==
    /\ pc = "generating"
    /\ stack = <<>>
    /\ pc' = "generated"
    /\ UNCHANGED <<width, height, vert_walls, hor_walls, visited, stack, path>>

\* solve, callable on any Maze value: after generate (as draw does), or on a
\* grid that was only constructed.  With a zero dimension total is 0:
\* `total - 1` overflows (a panic in a debug build) and g_score[start] indexes
\* an empty vector (a panic in every build).
Solve ==
    /\ pc \in {"created", "generated"}
    /\ IF width * height = 0
       THEN /\ pc' = "panic"
            /\ path' = path
       ELSE /\ path' = SolvePath(width, height, vert_walls, hor_walls)
            /\ pc' = IF pc = "generated" THEN "solved" ELSE "solved_fresh"
    /\ UNCHANGED <<width, height, vert_walls, hor_walls, visited, stack>>

Next ==
    \/ \E w \in 0..MaxCells, h \in 0..MaxCells : w * h <= MaxCells /\ New(w, h)
    \/ GenerateBegin
    \/ \E dirs \in Shuffles : GenerateStep(dirs)
    \/ GenerateReturn
    \/ Solve

Spec == Init /\ [][Next]_vars
\* generate and solve run to completion within one call (single-threaded,
\* no yield points): a step that can be taken is taken.
LiveSpec ==
    /\ Init
    /\ [][Next]_vars
    /\ WF_vars(GenerateBegin)
    /\ WF_vars(\E dirs \in Shuffles : GenerateStep(dirs))
    /\ WF_vars(GenerateReturn)

(***************************************************************************)
(* solve on hand-made grids: the fields of Maze are public, so a caller    *)
(* can hand solve any wall configuration.                                  *)
(***************************************************************************)

\* The walls between two cells of a w x h grid: <<registry, row, column>>.
InteriorWalls(w, h) ==
    { <<"v", y, x>> : y \in 0..(h - 1), x \in 1..(w - 1) }
        \cup { <<"h", y, x>> : y \in 1..(h - 1), x \in 0..(w - 1) }

SolveInit ==
    \E w \in 1..SolveMaxCells, h \in 1..SolveMaxCells :
        /\ w * h <= SolveMaxCells
        /\ \E gone \in SUBSET InteriorWalls(w, h) :
            /\ width = w
            /\ height = h
            /\ vert_walls = [y \in 0..(h - 1) |-> [x \in 0..w |-> <<"v", y, x>> \notin gone]]
            /\ hor_walls = [y \in 0..h |-> [x \in 0..(w - 1) |-> <<"h", y, x>> \notin gone]]
            /\ visited = <<>>
            /\ stack = <<>>
            /\ path = <<>>
            /\ pc = "created"

SolveNext == Solve

SolveSpec == SolveInit /\ [][SolveNext]_vars

(***************************************************************************)
(* The wall-free adjacency graph of the current grid, for the properties.  *)
(***************************************************************************)

Cells == (0..(width - 1)) \X (0..(height - 1))

Goal == <<width - 1, height - 1>>

Max2(a, b) == IF a > b THEN a ELSE b

GridAdjacent(a, b) ==
    \/ a[2] = b[2] /\ (a[1] = b[1] + 1 \/ b[1] = a[1] + 1)
    \/ a[1] = b[1] /\ (a[2] = b[2] + 1 \/ b[2] = a[2] + 1)

\* The registry entry of the wall between grid-adjacent cells a and b.
WallBetween(a, b) ==
    IF a[2] = b[2] THEN <<"v", a[2], Max2(a[1], b[1])>>
    ELSE <<"h", Max2(a[2], b[2]), a[1]>>

WallUp(wl) == IF wl[1] = "v" THEN vert_walls[wl[2]][wl[3]] ELSE hor_walls[wl[2]][wl[3]]

\* Cells one wall-free move away from a, the walls in `kept` counted as present.
Moves(a, kept) ==
    { b \in Cells : GridAdjacent(a, b) /\ ~WallUp(WallBetween(a, b)) /\ WallBetween(a, b) \notin kept }

RECURSIVE Grow(_, _)
Grow(seen, kept) ==
    LET more == UNION { Moves(a, kept) : a \in seen } \ seen
    IN  IF more = {} THEN seen ELSE Grow(seen \cup more, kept)

\* Cells reachable from a by wall-free moves.
Reach(a) == Grow({a}, {})

\* Breadth-first distance from the cells of `frontier` (at distance d) to b; -1 if none.
RECURSIVE Bfs(_, _, _, _)
Bfs(frontier, seen, d, b) ==
    IF b \in frontier THEN d
    ELSE IF frontier = {} THEN -1
    ELSE LET next == UNION { Moves(a, {}) : a \in frontier } \ seen
         IN  Bfs(next, seen \cup next, d + 1, b)

BfsDistance == Bfs({<<0, 0>>}, {<<0, 0>>}, 0, Goal)

\* Wall entries that are false, vertical and horizontal together.
RemovedWalls ==
    Cardinality({ <<y, x>> \in (0..(height - 1)) \X (0..width) : ~vert_walls[y][x] })
        + Cardinality({ <<y, x>> \in (0..height) \X (0..(width - 1)) : ~hor_walls[y][x] })

\* No two cells are joined by two distinct wall-free paths: every passage is
\* a bridge, its two cells fall apart when its wall is put back.
Acyclic ==
    \A a \in Cells : \A b \in Moves(a, {}) : b \notin Grow({a}, {WallBetween(a, b)})

AllVisited == \A c \in Cells : visited[c[2]][c[1]]

\* The path is a walk of wall-free moves from (0,0) to the goal.
ValidPath(p) ==
    /\ Len(p) >= 1
    /\ p[1] = <<0, 0>>
    /\ p[Len(p)] = Goal
    /\ \A k \in 1..(Len(p) - 1) :
        /\ p[k] \in Cells
        /\ p[k + 1] \in Cells
        /\ GridAdjacent(p[k], p[k + 1])
        /\ ~WallUp(WallBetween(p[k], p[k + 1]))

(***************************************************************************)
(* Properties                                                              *)
(***************************************************************************)

\* C1: when generate returns on a fresh W x H grid (W, H >= 1), every cell
\* has been visited and every cell is reachable from (0,0) by wall-free moves.
C1_AllVisitedAndReachable ==
    pc = "generated" => AllVisited /\ Reach(<<0, 0>>) = Cells

\* C2: when generate returns on a fresh W x H grid, exactly W*H - 1 wall
\* entries have been set to false.
C2_RemovedWallCount ==
    pc = "generated" => RemovedWalls = width * height - 1

\* A step that changes a wall of a built grid is a step of generate that
\* removes exactly one wall, the one between the popped cell and a neighbour
\* that was unvisited before the step and is visited after it.
CarveOnlyToUnvisited ==
    (pc # "start" /\ (vert_walls' # vert_walls \/ hor_walls' # hor_walls)) =>
        /\ pc = "generating"
        /\ RemovedWalls' = RemovedWalls + 1
        /\ LET top == stack[Len(stack)]
               cur == <<top[1], top[2]>>
           IN  \E n \in Cells :
                /\ GridAdjacent(cur, n)
                /\ ~visited[n[2]][n[1]]
                /\ visited'[n[2]][n[1]]
                /\ WallUp(WallBetween(cur, n))
                /\ LET wl == WallBetween(cur, n)
                   IN  IF wl[1] = "v" THEN ~vert_walls'[wl[2]][wl[3]]
                       ELSE ~hor_walls'[wl[2]][wl[3]]

\* C3: the wall-free graph never contains a cycle, in every state during and
\* after generation, and a wall is removed only between the current cell and
\* a neighbour that was unvisited at that moment.
C3_NoCycle == [](pc # "start" => Acyclic) /\ [][CarveOnlyToUnvisited]_vars

\* C3 witness: a finished two-dimensional maze with at least three passages.
C3_Witness ==
    pc = "generated" /\ width >= 2 /\ height >= 2 /\ RemovedWalls >= 3

\* C4: on a generated maze, the path solve returns starts with (0,0), ends
\* with (W-1,H-1), and moves between grid-adjacent cells with no wall between.
C4_PathValid ==
    pc = "solved" => ValidPath(path)

\* C5: on any wall configuration in which the goal is reachable, the number
\* of moves of the returned path equals the breadth-first distance from
\* (0,0) to the goal, and so does the goal's g_score when the search stops.
C5_ShortestPath ==
    (pc \in {"solved", "solved_fresh"} /\ Goal \in Reach(<<0, 0>>)) =>
        /\ Len(path) - 1 = BfsDistance
        /\ SearchResult(width, height, vert_walls, hor_walls).g[width * height - 1] = BfsDistance

\* C5 witness: a solved grid with a cycle whose shortest route is a detour,
\* longer than the Manhattan distance.
C5_Witness ==
    /\ pc = "solved_fresh"
    /\ Goal \in Reach(<<0, 0>>)
    /\ ~Acyclic
    /\ Len(path) - 1 > (width - 1) + (height - 1)

\* C6: when the goal is unreachable, the result of solve is not a path that
\* ends at the goal and is not the value solve returns for the valid
\* single-cell path of a 1 x 1 grid.
C6_NoPathDistinct ==
    (pc \in {"solved", "solved_fresh"} /\ Goal \notin Reach(<<0, 0>>)) =>
        /\ path = <<>> \/ path[Len(path)] # Goal
        /\ path # SolvePath(1, 1, NewVertWalls(1, 1), NewHorWalls(1, 1))

\* C7: a grid with width = 0 or height = 0 is rejected before generation:
\* no Maze with a zero dimension exists and no step of generate or solve
\* runs on one.
C7_ZeroDimensionRejected ==
    (width = 0 \/ height = 0) => pc = "start"

\* C8: generate is total for W, H >= 1: once begun, the carving loop reaches
\* the empty stack and returns, and no step indexes visited or a wall
\* registry out of bounds (a panic happens only on a zero dimension).
C8_GenerateTotal ==
    /\ (pc = "generating") ~> (pc = "generated")
    /\ [](pc = "panic" => width * height = 0)

\* C8 witness: generation under way with a frame whose dir_idx is 4, the
\* frame whose scan range is empty.
C8_Witness ==
    pc = "generating" /\ \E k \in 1..Len(stack) : stack[k][3] = 4

\* C9: boundary walls are never removed.
C9_BoundaryWalls ==
    pc # "start" =>
        /\ \A y \in 0..(height - 1) : vert_walls[y][0] /\ vert_walls[y][width]
        /\ \A x \in 0..(width - 1) : hor_walls[0][x] /\ hor_walls[height][x]

\* C9 witness: a finished maze in which every cell was carved into.
C9_Witness ==
    pc = "generated" /\ width >= 2 /\ height >= 2 /\ RemovedWalls = width * height - 1

\* C10: on a 1 x 1 grid generate removes no wall and solve returns [(0,0)].
C10_SingleCell ==
    (width = 1 /\ height = 1) =>
        /\ vert_walls[0][0] /\ vert_walls[0][1] /\ hor_walls[0][0] /\ hor_walls[1][0]
        /\ pc \in {"solved", "solved_fresh"} => path = << <<0, 0>> >>

\* C10 witness: the 1 x 1 grid, generated and then solved.
C10_Witness ==
    width = 1 /\ height = 1 /\ pc = "solved"
\* Cells the carving walk has entered.
VisitedCells == { c \in Cells : visited[c[2]][c[1]] }

\* In-bounds neighbours of cell c that the walk has not entered.
UnvisitedNeighbours(c) == { n \in Cells \ VisitedCells : GridAdjacent(c, n) }

\* A step of generate that drops the popped frame: the stack loses its top
\* and nothing is pushed back.
FrameDropped ==
    /\ pc = "generating"
    /\ pc' = "generating"
    /\ stack # <<>>
    /\ stack' = SubSeq(stack, 1, Len(stack) - 1)

\* C11: a cell's directions are shuffled once and every later pop of its
\* frame resumes in that same ordering, so each direction is examined at most
\* once and a frame is dropped only when none of the cell's in-bounds
\* neighbours is unvisited.
C11_DropOnlyWhenExhausted ==
    [][FrameDropped =>
        UnvisitedNeighbours(<<stack[Len(stack)][1], stack[Len(stack)][2]>>) = {}]_vars
\* Cells reachable from a by wall-free moves that stay inside `within`.
RECURSIVE GrowIn(_, _)
GrowIn(seen, within) ==
    LET more == (UNION { Moves(a, {}) : a \in seen } \cap within) \ seen
    IN  IF more = {} THEN seen ELSE GrowIn(seen \cup more, within)

\* The cell of the k-th frame of the stack, counted from the bottom.
FrameCell(k) == <<stack[k][1], stack[k][2]>>

\* The visited cells and the passages among them form a tree containing (0,0).
VisitedTree ==
    /\ <<0, 0>> \in VisitedCells
    /\ GrowIn({<<0, 0>>}, VisitedCells) = VisitedCells
    /\ RemovedWalls = Cardinality(VisitedCells) - 1

\* Every wall entry around an unvisited cell is still true.
UnvisitedWalled ==
    \A c \in Cells \ VisitedCells :
        /\ vert_walls[c[2]][c[1]] /\ vert_walls[c[2]][c[1] + 1]
        /\ hor_walls[c[2]][c[1]] /\ hor_walls[c[2] + 1][c[1]]

\* Bottom to top the stack holds each cell at most once and is a walk of
\* wall-free moves between adjacent cells that starts at (0,0).
StackIsPath ==
    /\ \A j, k \in 1..Len(stack) : j # k => FrameCell(j) # FrameCell(k)
    /\ stack # <<>> => FrameCell(1) = <<0, 0>>
    /\ \A k \in 1..(Len(stack) - 1) :
        /\ GridAdjacent(FrameCell(k), FrameCell(k + 1))
        /\ ~WallUp(WallBetween(FrameCell(k), FrameCell(k + 1)))

\* C12: at every step of generate the visited cells with the removed walls
\* form a tree containing (0,0) (connected, removed walls = visited cells - 1),
\* every wall touching an unvisited cell is present, and the stack, bottom to
\* top, holds each cell at most once and is a wall-free path of adjacent
\* cells starting at (0,0).
C12_GenerateInvariant ==
    pc \in {"generating", "generated"} =>
        VisitedTree /\ UnvisitedWalled /\ StackIsPath

\* C12 witness: mid-generation after a backtrack: at least three frames on
\* the stack, more visited cells than frames, and a cell still unvisited.
C12_Witness ==
    /\ pc = "generating"
    /\ Len(stack) >= 3
    /\ Cardinality(VisitedCells) > Len(stack)
    /\ VisitedCells # Cells
====
